---- MODULE Spec2Model ----
(***************************************************************************)
(* The dense specialization of class LMI (LMI.h): a linear matrix pencil   *)
(* A0 + sum x_i A_i stored as std::vector<MT> matrices together with the   *)
(* packed matrix vectorMatrix.  Numbers are integers: every operation of   *)
(* the class except normalize() and the eigenvalue oracle is exact on      *)
(* integer-valued inputs.                                                  *)
(***************************************************************************)
EXTENDS Integers, Naturals, Sequences, FiniteSets, TLC

\* Largest dimension d of the position vector x.
MaxD == 2
\* Largest size m of the matrices.
MaxM == 3
\* Largest number of stores through pointers returned by getMatrix.
MaxWrites == 1

\* Coordinates of position vectors x, p and of kernel vectors e.
XVals == {-1, 0, 1}
PVals == {0, 1}
EVals == {0, 1}
\* What freshly allocated (uninitialized) storage may hold.
JunkVals == {7, -7}

(***************************************************************************)
(* Eigen dense matrices and vectors                                        *)
(***************************************************************************)

\* MT: a dense matrix; Eigen's default storage order is column-major, so
\* coefficient (r, c) lives at data[c * rows + r].
Matrix(n, k, F(_, _)) ==
    [rows |-> n, cols |-> k,
     data |-> [j \in 0..(n * k - 1) |-> F(j % n, j \div n)]]

\* MT::operator()(r, c)
At(M, r, c) == M.data[c * M.rows + r]

\* A default-constructed MT (0 x 0).
EmptyMatrix == Matrix(0, 0, LAMBDA r, c : 0)

\* VT: a dense column vector, coordinates 0..n-1.
Vector(n, F(_)) == [i \in 0..(n - 1) |-> F(i)]

\* VT::size()
Size(v) == Cardinality(DOMAIN v)

RECURSIVE Sum(_, _)
\* f[0] + ... + f[n-1]
Sum(f, n) == IF n = 0 THEN 0 ELSE f[n - 1] + Sum(f, n - 1)

\* MT * VT
MatVec(M, x) ==
    Vector(M.rows, LAMBDA i : Sum([j \in 0..(M.cols - 1) |-> At(M, i, j) * x[j]], M.cols))

\* VT::dot
Dot(u, v) == Sum([i \in DOMAIN u |-> u[i] * v[i]], Size(u))

\* MT::resize(n, k): storage is kept when the number of coefficients does not
\* change, and is reallocated without initialization otherwise.
Resize(M, n, k, junk) ==
    IF M.rows * M.cols = n * k
    THEN [rows |-> n, cols |-> k, data |-> M.data]
    ELSE Matrix(n, k, LAMBDA r, c : junk)

\* ret += A (sizes agree)
MatAdd(M, A) == Matrix(M.rows, M.cols, LAMBDA r, c : At(M, r, c) + At(A, r, c))

RECURSIVE ApplyWrites(_, _)
\* Performs the stores ws = << <<index, value>>, ... >> in order.
ApplyWrites(data, ws) ==
    IF ws = <<>> THEN data
    ELSE ApplyWrites([data EXCEPT ![Head(ws)[1]] = Head(ws)[2]], Tail(ws))

(***************************************************************************)
(* LMI::setVectorMatrix                                                    *)
(***************************************************************************)

RECURSIVE UpperFrom(_, _, _)
\* The (at_row, at_col) pairs the two nested loops of setVectorMatrix visit.
UpperFrom(mm, at_row, at_col) ==
    IF at_row >= mm THEN <<>>
    ELSE IF at_col >= mm THEN UpperFrom(mm, at_row + 1, at_row + 1)
    ELSE << <<at_row, at_col>> >> \o UpperFrom(mm, at_row, at_col + 1)

RECURSIVE ColumnFrom(_, _, _)
ColumnFrom(mm, at_col, at_row) ==
    IF at_col >= mm THEN <<>>
    ELSE IF at_row > at_col THEN ColumnFrom(mm, at_col + 1, 0)
    ELSE << <<at_row, at_col>> >> \o ColumnFrom(mm, at_col, at_row + 1)

\* The loop nest exchanged: the upper triangle read column by column.
PackOrderByColumn(mm) == ColumnFrom(mm, 0, 0)

\* for (at_row = 0; ...) for (at_col = at_row; ...)
PackOrder(mm) == UpperFrom(mm, 0, 0)

\* int newM = m * (m + 1) / 2
NewM(mm) == (mm * (mm + 1)) \div 2

\* iter skips A_0: column atMatrix is read from the matrix at C++ index
\* atMatrix + 1 (1-based index atMatrix + 2 of the sequence).
PackedSource(atMatrix) == atMatrix + 2

\* (*iter)(at_row, at_col): a read outside the matrix yields whatever the
\* memory holds.
Coeff(M, r, c, junk) == IF r < M.rows /\ c < M.cols THEN At(M, r, c) ELSE junk

\* The stores vectorMatrix(i++, atMatrix) = (*iter)(at_row, at_col), in
\* program order, as <<flat index, value>>.
PackWrites(mats, dd, mm, junk) ==
    LET ord == PackOrder(mm)
        n   == Len(ord)
    IN [k \in 1..(dd * n) |->
          LET atMatrix == (k - 1) \div n
              i        == (k - 1) % n
          IN << atMatrix * NewM(mm) + i,
                Coeff(mats[PackedSource(atMatrix)], ord[i + 1][1], ord[i + 1][2], junk) >>]

setVectorMatrix(mats, dd, mm, junk) ==
    LET vm0 == Resize(EmptyMatrix, NewM(mm), dd, junk)
    IN [vm0 EXCEPT !.data = ApplyWrites(vm0.data, PackWrites(mats, dd, mm, junk))]

(***************************************************************************)
(* LMI::evaluateWithoutA0 and LMI::evaluate                                *)
(***************************************************************************)

RECURSIVE LowerTargets(_, _, _)
\* "copy lower triangular": target = data + at_col * m + at_col, then
\* target++ for at_row = at_col..m-1.
LowerTargets(mm, at_col, at_row) ==
    IF at_col >= mm THEN <<>>
    ELSE IF at_row >= mm THEN LowerTargets(mm, at_col + 1, at_col + 1)
    ELSE <<at_col * mm + at_col + (at_row - at_col)>>
         \o LowerTargets(mm, at_col, at_row + 1)

RECURSIVE UpperTargets(_, _, _)
\* "copy upper triangular": target = data + at_row + at_row * m, then
\* target += m for at_col = at_row..m-1.
UpperTargets(mm, at_row, at_col) ==
    IF at_row >= mm THEN <<>>
    ELSE IF at_col >= mm THEN UpperTargets(mm, at_row + 1, at_row + 1)
    ELSE <<at_row + at_row * mm + (at_col - at_row) * mm>>
         \o UpperTargets(mm, at_row, at_col + 1)

\* target = data + col_offset, without the "+ at_col".
LowerTriangleFromColumnStart(mm) ==
    LET t == LowerTargets(mm, 0, 0)
    IN [k \in 1..Len(t) |-> t[k] - (t[k] \div mm)]

LowerTriangle(mm) == LowerTargets(mm, 0, 0)

\* target++ in place of target = target + m.
UpperTriangleUnitStride(mm) == LowerTargets(mm, 0, 0)

UpperTriangle(mm) == UpperTargets(mm, 0, 0)

\* *(target) = *(v++) over a list of targets; v restarts at a.data().
CopyPass(data, targets, a) ==
    ApplyWrites(data, [k \in 1..Len(targets) |-> <<targets[k], a[k - 1]>>])

evaluateWithoutA0(vm, mm, x, res, junk) ==
    LET a  == MatVec(vm, x)
        r0 == Resize(res, mm, mm, junk)
        lo == CopyPass(r0.data, LowerTriangle(mm), a)
        up == CopyPass(lo, UpperTriangle(mm), a)
    IN [r0 EXCEPT !.data = up]

\* evaluate without its "ret += matrices[0]".
evaluateForgetsA0(mats, vm, mm, x, res, junk) == evaluateWithoutA0(vm, mm, x, res, junk)

evaluate(mats, vm, mm, x, res, junk) ==
    MatAdd(evaluateWithoutA0(vm, mm, x, res, junk), mats[1])

(***************************************************************************)
(* LMI::normalizedDeterminantGradient                                      *)
(***************************************************************************)

\* A vector with a scale: the real vector v / sqrt(z).
Scaled(v, z) == [v |-> v, z |-> z]

\* VT::normalize(): divides by the Euclidean norm sqrt(squaredNorm()) when
\* squaredNorm() is positive and leaves the vector alone otherwise.
Normalize(v) ==
    LET z == Dot(v, v)
    IN IF z > 0 THEN Scaled(v, z) ELSE Scaled(v, 1)

\* matrices[i] in place of matrices[i + 1].
GradientSourceFromA0(i) == i + 1

\* matrices[i + 1] of the loop body (1-based index i + 2 of the sequence).
GradientSource(i) == i + 2

\* VT::resize(n): as for matrices.
ResizeVec(v, n, junk) == IF Size(v) = n THEN v ELSE Vector(n, LAMBDA i : junk)

\* ret.resize(d); ret(i) = e.dot(matrices[i+1] * e) for i = 0..d-1.
GradientRaw(mats, dd, e, ret, junk) ==
    ApplyWrites(ResizeVec(ret, dd, junk),
                [k \in 1..dd |->
                   <<k - 1, Dot(e, MatVec(mats[GradientSource(k - 1)], e))>>])

normalizedDeterminantGradient(mats, dd, p, e, ret, junk) ==
    Normalize(GradientRaw(mats, dd, e, ret, junk))

(***************************************************************************)
(* LMI::isNegativeSemidefinite and the eigenvalue oracle                   *)
(***************************************************************************)

\* s without its k-th element
RemoveAt(s, k) == [j \in 1..(Len(s) - 1) |-> IF j < k THEN s[j] ELSE s[j + 1]]

RECURSIVE Minor(_, _, _)
\* Determinant of the submatrix of M on rows rs and columns cs.
Minor(M, rs, cs) ==
    IF rs = <<>> THEN 1
    ELSE Sum([k \in 0..(Len(cs) - 1) |->
                (IF k % 2 = 0 THEN 1 ELSE -1) * At(M, rs[1], cs[k + 1])
                * Minor(M, Tail(rs), RemoveAt(cs, k + 1))], Len(cs))

RECURSIVE Ascending(_)
\* The elements of a finite set of integers in increasing order.
Ascending(S) ==
    IF S = {} THEN <<>>
    ELSE LET lo == CHOOSE a \in S : \A b \in S : a <= b
         IN <<lo>> \o Ascending(S \ {lo})

\* EigenvaluesProblems::findSymEigenvalue: the maximum eigenvalue of a
\* symmetric matrix, returned here as its sign.  The maximum eigenvalue is
\* negative iff the leading principal minors of -M are positive, and is at
\* most zero iff every principal minor of -M is nonnegative.
findSymEigenvalue(M) ==
    LET n   == M.rows
        neg == Matrix(n, n, LAMBDA r, c : 0 - At(M, r, c))
        pm(S) == Minor(neg, Ascending(S), Ascending(S))
    IN IF \A k \in 1..n : pm(0..(k - 1)) > 0 THEN -1
       ELSE IF \A S \in SUBSET (0..(n - 1)) : pm(S) >= 0 THEN 0
       ELSE 1

\* return eival < 0
isNegativeDefinite(M) == findSymEigenvalue(M) < 0

\* return eival <= 0
isNegativeSemidefinite(M) == findSymEigenvalue(M) <= 0

\* MT mat; evaluate(pos, mat); return isNegativeSemidefinite(mat);
isNegativeSemidefinitePos(mats, vm, mm, pos, junk) ==
    isNegativeSemidefinite(evaluate(mats, vm, mm, pos, EmptyMatrix, junk))

(***************************************************************************)
(* Inputs                                                                  *)
(***************************************************************************)

Min(a, b) == IF a <= b THEN a ELSE b
Max(a, b) == IF a <= b THEN b ELSE a

\* The symmetric n x n matrices the pencils are built from: the zero
\* matrix, -I, diag(1, -1, 1, ...), the matrix with ones off the diagonal,
\* and a matrix whose upper-triangle entries are pairwise distinct.
ConstantKinds == {"zero", "negid", "gen"}
CoefficientKinds == {"negid", "alt", "off", "gen"}

Sym(kind, n) ==
    Matrix(n, n, LAMBDA r, c :
        CASE kind = "zero"  -> 0
          [] kind = "negid" -> IF r = c THEN -1 ELSE 0
          [] kind = "alt"   -> IF r # c THEN 0 ELSE IF r % 2 = 0 THEN 1 ELSE -1
          [] kind = "off"   -> IF r = c THEN 0 ELSE 1
          [] kind = "gen"   -> Min(r, c) * n + Max(r, c) + 1)

\* Matrix sequences A0..Ad satisfying the data model: d + 1 symmetric
\* matrices of one size m.
Pencils(dd, mm) ==
    {<<Sym(k0, mm)>> \o coef :
        k0 \in ConstantKinds, coef \in [1..dd -> {Sym(k, mm) : k \in CoefficientKinds}]}

\* Vectors of length n with coordinates in V.
Vectors(n, V) == [0..(n - 1) -> V]

NoVec == Vector(0, LAMBDA i : 0)

\* What the caller's output buffer holds before a call: nothing (a
\* default-constructed object) or old values in a buffer of the right size.
PrevKinds == {"empty", "sized"}

PrevMatrix(pk, mm, junk) ==
    IF pk = "empty" THEN EmptyMatrix ELSE Matrix(mm, mm, LAMBDA r, c : junk)

PrevVector(pk, dd, junk) ==
    IF pk = "empty" THEN NoVec ELSE Vector(dd, LAMBDA i : junk)

(***************************************************************************)
(* State                                                                   *)
(***************************************************************************)

VARIABLES
    obj,            \* "none" until a constructor has run, then "constructed"
    matrices,       \* std::vector<MT> matrices (1-based: matrices[1] is A_0)
    d,              \* unsigned int d
    m,              \* unsigned int m
    vectorMatrix,   \* MT vectorMatrix
    nwrites,        \* stores made through pointers returned by getMatrix
    op,             \* the last member function called
    outcome,        \* how that call ended
    xin,            \* its argument x (or pos)
    ein,            \* its argument e
    pin,            \* its argument p
    prev,           \* what its output argument held before the call
    res,            \* its output matrix
    ret,            \* its output vector
    nsd             \* its boolean result

fields == <<obj, matrices, d, m, vectorMatrix, nwrites>>
caller == <<op, outcome, xin, ein, pin, prev, res, ret, nsd>>
vars == <<obj, matrices, d, m, vectorMatrix, nwrites, op, outcome, xin, ein, pin, prev, res, ret, nsd>>

\* No object yet.
Init ==
    /\ obj = "none"
    /\ matrices = <<>>
    /\ d = 0
    /\ m = 0
    /\ vectorMatrix = EmptyMatrix
    /\ nwrites = 0
    /\ op = "none"
    /\ outcome = "ok"
    /\ xin = NoVec
    /\ ein = NoVec
    /\ pin = NoVec
    /\ prev = "empty"
    /\ res = EmptyMatrix
    /\ ret = Scaled(NoVec, 1)
    /\ nsd = FALSE

\* The caller's record of a call that returned normally.
Returned(name, x, e, p, pk, outM, outV, b) ==
    /\ op' = name
    /\ outcome' = "ok"
    /\ xin' = x
    /\ ein' = e
    /\ pin' = p
    /\ prev' = pk
    /\ res' = outM
    /\ ret' = outV
    /\ nsd' = b

\* The reads (*iter)(at_row, at_col) of setVectorMatrix stay inside every
\* coefficient matrix.
PackingInBounds(input) ==
    /\ Len(input) >= 1
    /\ \A k \in 2..Len(input) :
          input[1].rows <= input[k].rows /\ input[1].rows <= input[k].cols

\* LMI(std::vector<MT>& matrices), all of whose reads are in bounds.
Construct(input, junk) ==
    /\ obj = "none"
    /\ PackingInBounds(input)
    /\ obj' = "constructed"
    /\ nwrites' = 0
    /\ matrices' = input
    /\ d' = Len(input) - 1
    /\ m' = input[1].rows
    /\ vectorMatrix' = setVectorMatrix(input, Len(input) - 1, input[1].rows, junk)
    /\ Returned("construct", NoVec, NoVec, NoVec, "empty", EmptyMatrix, Scaled(NoVec, 1), FALSE)

\* vectorMatrix * x has matching sizes and the copy loops read inside a.
EvaluateWithoutA0Defined(x) ==
    /\ Size(x) = vectorMatrix.cols
    /\ NewM(m) <= vectorMatrix.rows

\* ... and ret += matrices[0] adds an m x m matrix.
EvaluateDefined(x) ==
    /\ EvaluateWithoutA0Defined(x)
    /\ Len(matrices) >= 1
    /\ matrices[1].rows = m
    /\ matrices[1].cols = m

\* matrices[i+1] exists and e.dot(matrices[i+1] * e) has matching sizes.
GradientDefined(e) ==
    \A i \in 0..(d - 1) :
        /\ GradientSource(i) <= Len(matrices)
        /\ matrices[GradientSource(i)].rows = Size(e)
        /\ matrices[GradientSource(i)].cols = Size(e)

Evaluate(x, pk, junk) ==
    /\ obj = "constructed"
    /\ op = "idle"
    /\ EvaluateDefined(x)
    /\ UNCHANGED fields
    /\ Returned("evaluate", x, NoVec, NoVec, pk,
                evaluate(matrices, vectorMatrix, m, x, PrevMatrix(pk, m, junk), junk),
                Scaled(NoVec, 1), FALSE)

EvaluateWithoutA0(x, pk, junk) ==
    /\ obj = "constructed"
    /\ op = "idle"
    /\ EvaluateWithoutA0Defined(x)
    /\ UNCHANGED fields
    /\ Returned("evaluateWithoutA0", x, NoVec, NoVec, pk,
                evaluateWithoutA0(vectorMatrix, m, x, PrevMatrix(pk, m, junk), junk),
                Scaled(NoVec, 1), FALSE)

NormalizedDeterminantGradient(p, e, pk, junk) ==
    /\ obj = "constructed"
    /\ op = "idle"
    /\ GradientDefined(e)
    /\ UNCHANGED fields
    /\ Returned("normalizedDeterminantGradient", NoVec, e, p, pk, EmptyMatrix,
                normalizedDeterminantGradient(matrices, d, p, e, PrevVector(pk, d, junk), junk),
                FALSE)

IsNegativeSemidefinite(pos, junk) ==
    /\ obj = "constructed"
    /\ op = "idle"
    /\ EvaluateDefined(pos)
    /\ UNCHANGED fields
    /\ Returned("isNegativeSemidefinite", pos, NoVec, NoVec, "empty", EmptyMatrix,
                Scaled(NoVec, 1),
                isNegativeSemidefinitePos(matrices, vectorMatrix, m, pos, junk))

\* getMatrices() returns a copy of the sequence.
GetMatrices ==
    /\ obj = "constructed"
    /\ op = "idle"
    /\ UNCHANGED fields
    /\ Returned("getMatrices", NoVec, NoVec, NoVec, "empty", EmptyMatrix, Scaled(NoVec, 1), FALSE)

\* The caller drops the arguments and results of the last call; the object
\* is untouched.
Discard ==
    /\ obj = "constructed"
    /\ op # "idle"
    /\ outcome \in {"ok", "garbage"}
    /\ UNCHANGED fields
    /\ Returned("idle", NoVec, NoVec, NoVec, "empty", EmptyMatrix, Scaled(NoVec, 1), FALSE)

\* The points p the gradient is asked at: constant vectors.
Points(dd) == {Vector(dd, LAMBDA i : c) : c \in PVals}

Next ==
    \/ \E dd \in 1..MaxD, mm \in 1..MaxM :
         \E input \in Pencils(dd, mm), junk \in JunkVals : Construct(input, junk)
    \/ \E x \in Vectors(d, XVals), pk \in PrevKinds, junk \in JunkVals : Evaluate(x, pk, junk)
    \/ \E x \in Vectors(d, XVals), pk \in PrevKinds, junk \in JunkVals :
         EvaluateWithoutA0(x, pk, junk)
    \/ \E p \in Points(d), e \in Vectors(m, EVals), pk \in PrevKinds, junk \in JunkVals :
         NormalizedDeterminantGradient(p, e, pk, junk)
    \/ \E pos \in Vectors(d, XVals), junk \in JunkVals : IsNegativeSemidefinite(pos, junk)
    \/ GetMatrices
    \/ Discard

Spec == Init /\ [][Next]_vars

(***************************************************************************)
(* Properties of the read-only operations on a pencil of symmetric         *)
(* matrices (Spec)                                                         *)
(***************************************************************************)

IsSymmetric(M) ==
    /\ M.rows = M.cols
    /\ \A r \in 0..(M.rows - 1), c \in 0..(M.rows - 1) : At(M, r, c) = At(M, c, r)

\* Entry (r, c) of x_1 A_1 + ... + x_d A_d, summed matrix by matrix.
NaiveEntry(x, r, c) == Sum([i \in 0..(d - 1) |-> x[i] * At(matrices[i + 2], r, c)], d)

IsSquareM(M) == M.rows = m /\ M.cols = m

\* C1: on a pencil of symmetric coefficient matrices, entry (r, c) of the
\* matrix evaluateWithoutA0(x) returns is the sum over i of x_i * A_i(r, c).
PackedEqualsNaive ==
    (op = "evaluateWithoutA0" /\ \A k \in 2..Len(matrices) : IsSymmetric(matrices[k]))
        => /\ IsSquareM(res)
           /\ \A r \in 0..(m - 1), c \in 0..(m - 1) : At(res, r, c) = NaiveEntry(xin, r, c)

\* A 3 x 3 pencil with d = 2: entry (1, 2) is 1 * 6 + (-1) * 1.
PackedEqualsNaiveWitness ==
    /\ op = "evaluateWithoutA0"
    /\ m = 3 /\ d = 2
    /\ prev = "sized"
    /\ matrices[2] = Sym("gen", 3) /\ matrices[3] = Sym("off", 3)
    /\ xin[0] = 1 /\ xin[1] = -1
    /\ At(res, 1, 2) = 5

\* C2: evaluate(x) is evaluateWithoutA0(x) + A0 entry by entry, whatever the
\* output matrix held before the call.
EvaluateAddsA0 ==
    op = "evaluate"
        => /\ IsSquareM(res)
           /\ \A junk \in JunkVals :
                LET w == evaluateWithoutA0(vectorMatrix, m, xin, EmptyMatrix, junk)
                IN \A r \in 0..(m - 1), c \in 0..(m - 1) :
                       At(res, r, c) = At(w, r, c) + At(matrices[1], r, c)

\* A0 with distinct entries added to 1 * diag(1, -1, 1) in a buffer that
\* held old values: entry (1, 1) is 5 + (-1).
EvaluateAddsA0Witness ==
    /\ op = "evaluate"
    /\ m = 3 /\ d = 1
    /\ prev = "sized"
    /\ matrices[1] = Sym("gen", 3) /\ matrices[2] = Sym("alt", 3)
    /\ xin[0] = 1
    /\ At(res, 1, 1) = 4 /\ At(res, 0, 2) = 3

\* C3: the matrix evaluate(x) produces is symmetric; the two unpacking passes
\* write every one of the m * m entries, and the k-th store of the second
\* pass goes to the transpose of the position of the k-th store of the first.
EvaluateSymmetric ==
    /\ op \in {"evaluate", "evaluateWithoutA0"} => IsSymmetric(res)
    /\ obj = "constructed" =>
         LET lo == LowerTriangle(m)
             up == UpperTriangle(m)
         IN /\ Len(lo) = NewM(m) /\ Len(up) = NewM(m)
            /\ {lo[k] : k \in 1..Len(lo)} \cup {up[k] : k \in 1..Len(up)} = 0..(m * m - 1)
            /\ \A k \in 1..Len(lo) :
                 lo[k] % m = up[k] \div m /\ lo[k] \div m = up[k] % m

EvaluateSymmetricWitness ==
    /\ op = "evaluate"
    /\ m = 3
    /\ prev = "sized"
    /\ At(res, 0, 1) # 0
    /\ At(res, 0, 1) # At(res, 0, 2)
    /\ At(res, 1, 2) # At(res, 0, 2)
    /\ At(res, 2, 1) = At(res, 1, 2)

\* v^T M v
QuadraticForm(M, v) ==
    Sum([r \in 0..(M.rows - 1) |->
           Sum([c \in 0..(M.cols - 1) |-> v[r] * At(M, r, c) * v[c]], M.cols)], M.rows)

\* A0 + sum x_i A_i, summed matrix by matrix.
NaivePencil(x) == Matrix(m, m, LAMBDA r, c : At(matrices[1], r, c) + NaiveEntry(x, r, c))

\* A * B for square matrices of one size
MatMul(A, B) ==
    Matrix(A.rows, A.rows, LAMBDA r, c :
        Sum([k \in 0..(A.rows - 1) |-> At(A, r, k) * At(B, k, c)], A.rows))

RECURSIVE PowerTrace(_, _, _)
\* trace(M^k), where P is M^(k-1) ... the sequence tr(M), tr(M^2), ..., tr(M^n)
PowerTrace(M, P, k) ==
    IF k = 0 THEN <<>>
    ELSE LET Q == MatMul(P, M)
         IN <<Sum([r \in 0..(M.rows - 1) |-> At(Q, r, r)], M.rows)>>
            \o PowerTrace(M, Q, k - 1)

RECURSIVE Elementary(_, _)
\* The k-th elementary symmetric polynomial of the eigenvalues, from the
\* power sums pw by Newton's identities.
Elementary(pw, k) ==
    IF k = 0 THEN 1
    ELSE Sum([i \in 0..(k - 1) |->
                (IF i % 2 = 0 THEN 1 ELSE -1) * Elementary(pw, k - 1 - i) * pw[i + 1]], k)
         \div k

\* The eigenvalues of a symmetric M are real, so all of them are <= 0 iff
\* the characteristic polynomial of -M has no negative coefficient, i.e.
\* (-1)^k e_k >= 0 for k = 1..n.
MaxEigenvalueNonPositive(M) ==
    LET n  == M.rows
        pw == PowerTrace(M, Matrix(n, n, LAMBDA r, c : IF r = c THEN 1 ELSE 0), n)
    IN \A k \in 1..n : (IF k % 2 = 0 THEN 1 ELSE -1) * Elementary(pw, k) >= 0

\* C4: isNegativeSemidefinite(x) is true iff the maximum eigenvalue of the
\* pencil at x is <= 0; for A0 = 0, A1 = [[1,0],[0,-1]], A2 = [[0,1],[1,0]]
\* it is false at x = (1, 0) and at x = (-1, 0).
FeasibleIffMaxEigenvalueNonPositive ==
    op = "isNegativeSemidefinite"
        => /\ nsd = MaxEigenvalueNonPositive(NaivePencil(xin))
           /\ ( /\ matrices = <<Sym("zero", 2), Sym("alt", 2), Sym("off", 2)>>
                /\ xin \in {Vector(2, LAMBDA i : IF i = 0 THEN 1 ELSE 0),
                            Vector(2, LAMBDA i : IF i = 0 THEN -1 ELSE 0)} )
              => nsd = FALSE

FeasibleIffMaxEigenvalueNonPositiveWitness ==
    /\ op = "isNegativeSemidefinite"
    /\ matrices = <<Sym("zero", 2), Sym("alt", 2), Sym("off", 2)>>
    /\ xin = Vector(2, LAMBDA i : IF i = 0 THEN -1 ELSE 0)
    /\ nsd = FALSE

\* C8: normalizedDeterminantGradient(p, e) has length d and its coordinate
\* i - 1 is e^T A_i e times one positive factor 1 / sqrt(z), for i = 1..d;
\* the value is a function of e and A_1..A_d alone.
GradientIsScaledQuadraticForms ==
    op = "normalizedDeterminantGradient"
        => /\ DOMAIN ret.v = 0..(d - 1)
           /\ \A i \in 1..d : ret.v[i - 1] = QuadraticForm(matrices[i + 1], ein)
           /\ ret.z > 0
           /\ (\E i \in 1..d : ret.v[i - 1] # 0)
                => ret.z = Sum([i \in 0..(d - 1) |-> ret.v[i] * ret.v[i]], d)

\* d = 2 with A0, A1, A2 pairwise different, p nonzero, old values in the
\* output vector.
GradientIsScaledQuadraticFormsWitness ==
    /\ op = "normalizedDeterminantGradient"
    /\ d = 2 /\ m = 3
    /\ prev = "sized"
    /\ pin[0] = 1
    /\ matrices[1] = Sym("negid", 3) /\ matrices[2] = Sym("gen", 3)
    /\ matrices[3] = Sym("off", 3)
    /\ ein[0] = 1 /\ ein[1] = 1 /\ ein[2] = 0
    /\ ret.v[0] = 10 /\ ret.v[1] = 2 /\ ret.z = 104

\* C10: right after construction the packed matrix is m(m+1)/2 by d, entry
\* (r, c), r <= c, of A(i+1) sits in column i at row r*m - r(r-1)/2 + (c-r),
\* and every coefficient of the packed matrix is stored exactly once.
PackedLayout ==
    op = "construct"
        => /\ vectorMatrix.rows = (m * (m + 1)) \div 2
           /\ vectorMatrix.cols = d
           /\ d = Len(matrices) - 1
           /\ \A i \in 0..(d - 1), r \in 0..(m - 1), c \in 0..(m - 1) :
                r <= c =>
                  At(vectorMatrix, r * m - ((r * (r - 1)) \div 2) + (c - r), i)
                    = At(matrices[i + 2], r, c)
           /\ \A junk \in JunkVals :
              LET ws == PackWrites(matrices, d, m, junk)
              IN /\ Len(ws) = vectorMatrix.rows * d
                 /\ \A j \in 0..(vectorMatrix.rows * d - 1) :
                      Cardinality({k \in 1..Len(ws) : ws[k][1] = j}) = 1

PackedLayoutWitness ==
    /\ op = "construct"
    /\ m = 3 /\ d = 2
    /\ matrices[1] = Sym("gen", 3) /\ matrices[2] = Sym("alt", 3)
    /\ matrices[3] = Sym("gen", 3)
    /\ At(vectorMatrix, 3, 0) = -1
    /\ At(vectorMatrix, 4, 1) = 6
    /\ At(vectorMatrix, 5, 1) = 9

(***************************************************************************)
(* Writes through getMatrix (SpecMut)                                      *)
(***************************************************************************)

WriteVals == {2}

\* MT* const getMatrix(i) returns &(matrices[i]); the caller stores val in
\* coefficient (r, c) of the matrix it points to.
GetMatrixWrite(i, r, c, val) ==
    /\ obj = "constructed"
    /\ op = "idle"
    /\ nwrites < MaxWrites
    /\ matrices' = [matrices EXCEPT ![i + 1] = [@ EXCEPT !.data[c * @.rows + r] = val]]
    /\ nwrites' = nwrites + 1
    /\ UNCHANGED <<obj, d, m, vectorMatrix>>
    /\ Returned("getMatrix", NoVec, NoVec, NoVec, "empty", EmptyMatrix, Scaled(NoVec, 1), FALSE)

MutNext ==
    \/ Next
    \/ \E i \in 0..d, r \in 0..(m - 1), c \in 0..(m - 1), val \in WriteVals :
         GetMatrixWrite(i, r, c, val)

SpecMut == Init /\ [][MutNext]_vars

\* Column i of the packed matrix is the upper triangle of A(i+1).
PackedMatches ==
    /\ vectorMatrix.rows = NewM(m)
    /\ vectorMatrix.cols = d
    /\ d = Len(matrices) - 1
    /\ \A i \in 0..(d - 1), r \in 0..(m - 1), c \in 0..(m - 1) :
         r <= c =>
           At(vectorMatrix, r * m - ((r * (r - 1)) \div 2) + (c - r), i)
             = At(matrices[i + 2], r, c)

\* C9: in every state reached through the public operations, the packed
\* matrix is consistent with the stored matrices.
PackedStaysConsistent == obj = "constructed" => PackedMatches

(***************************************************************************)
(* Arguments the data model excludes (SpecErr)                             *)
(***************************************************************************)

\* A 2 x 2 matrix that is not symmetric and a 2 x 3 matrix.
NonSymmetric == Matrix(2, 2, LAMBDA r, c : IF r < c THEN 1 ELSE 0)
NonSquare == Matrix(2, 3, LAMBDA r, c : Min(r, c) * 2 + Max(r, c) + 1)

AnyMatrices ==
    {Sym("gen", 2), Sym("negid", 2), NonSymmetric, NonSquare, Sym("gen", 1), Sym("gen", 3)}

\* Matrix sequences of every length from 0 to MaxD + 1.
AnySequences == UNION {[1..n -> AnyMatrices] : n \in 0..(MaxD + 1)}

\* Vectors of every length from 0 to MaxD + 1.
AnyVectors(V) == UNION {Vectors(n, V) : n \in 0..(MaxD + 1)}

\* What d and m hold after a constructor that does not set them.
UninitVals == {0, 2}

\* How a call with undefined behaviour can end: an Eigen or library
\* assertion aborts the process, the process faults, or the call returns
\* with values read from outside its operands.
UndefinedOutcomes == {"abort", "crash", "garbage"}

\* LMI(std::vector<MT>&) on an empty sequence: d = matrices.size() - 1
\* wraps around to UINT_MAX and matrices[0] does not exist, so the process
\* ends before d or m can be read.
ConstructEmpty(o) ==
    /\ obj = "none"
    /\ o # "garbage"
    /\ obj' = o
    /\ matrices' = <<>>
    /\ UNCHANGED <<d, m, vectorMatrix, nwrites>>
    /\ Returned("construct", NoVec, NoVec, NoVec, "empty", EmptyMatrix, Scaled(NoVec, 1), FALSE)

\* LMI(std::vector<MT>&) when a coefficient matrix has fewer than m rows or
\* columns: setVectorMatrix reads outside it.
ConstructOutOfBounds(input, junk, o) ==
    /\ obj = "none"
    /\ Len(input) >= 1
    /\ ~PackingInBounds(input)
    /\ obj' = IF o = "garbage" THEN "constructed" ELSE o
    /\ matrices' = input
    /\ d' = Len(input) - 1
    /\ m' = input[1].rows
    /\ vectorMatrix' = IF o = "garbage"
                       THEN setVectorMatrix(input, Len(input) - 1, input[1].rows, junk)
                       ELSE EmptyMatrix
    /\ nwrites' = 0
    /\ Returned("construct", NoVec, NoVec, NoVec, "empty", EmptyMatrix, Scaled(NoVec, 1), FALSE)

\* LMI(){}: d and m are not set.
ConstructDefault(dj, mj) ==
    /\ obj = "none"
    /\ obj' = "constructed"
    /\ matrices' = <<>>
    /\ d' = dj
    /\ m' = mj
    /\ vectorMatrix' = EmptyMatrix
    /\ nwrites' = 0
    /\ Returned("construct", NoVec, NoVec, NoVec, "empty", EmptyMatrix, Scaled(NoVec, 1), FALSE)

\* A call whose operands do not fit: the caller's record of how it ended.
Undefined(name, x, e, p, o) ==
    /\ op' = name
    /\ outcome' = o
    /\ xin' = x
    /\ ein' = e
    /\ pin' = p
    /\ prev' = "empty"
    /\ res' = EmptyMatrix
    /\ ret' = Scaled(NoVec, 1)
    /\ nsd' = FALSE

EvaluateUndefined(x, o) ==
    /\ obj = "constructed"
    /\ op = "idle"
    /\ ~EvaluateDefined(x)
    /\ UNCHANGED fields
    /\ Undefined("evaluate", x, NoVec, NoVec, o)

EvaluateWithoutA0Undefined(x, o) ==
    /\ obj = "constructed"
    /\ op = "idle"
    /\ ~EvaluateWithoutA0Defined(x)
    /\ UNCHANGED fields
    /\ Undefined("evaluateWithoutA0", x, NoVec, NoVec, o)

GradientUndefined(p, e, o) ==
    /\ obj = "constructed"
    /\ op = "idle"
    /\ ~GradientDefined(e)
    /\ UNCHANGED fields
    /\ Undefined("normalizedDeterminantGradient", NoVec, e, p, o)

\* Points p of any length.
AnyPoints == {Vector(n, LAMBDA i : 0) : n \in 0..(MaxD + 1)}

ErrNext ==
    \/ \E input \in AnySequences, junk \in JunkVals : Construct(input, junk)
    \/ \E o \in UndefinedOutcomes : ConstructEmpty(o)
    \/ \E input \in AnySequences, junk \in JunkVals, o \in UndefinedOutcomes :
         ConstructOutOfBounds(input, junk, o)
    \/ \E dj \in UninitVals, mj \in UninitVals : ConstructDefault(dj, mj)
    \/ \E x \in AnyVectors(PVals), pk \in PrevKinds, junk \in JunkVals : Evaluate(x, pk, junk)
    \/ \E x \in AnyVectors(PVals), o \in UndefinedOutcomes : EvaluateUndefined(x, o)
    \/ \E x \in AnyVectors(PVals), pk \in PrevKinds, junk \in JunkVals :
         EvaluateWithoutA0(x, pk, junk)
    \/ \E x \in AnyVectors(PVals), o \in UndefinedOutcomes : EvaluateWithoutA0Undefined(x, o)
    \/ \E p \in AnyPoints, e \in AnyVectors(EVals), pk \in PrevKinds, junk \in JunkVals :
         NormalizedDeterminantGradient(p, e, pk, junk)
    \/ \E p \in AnyPoints, e \in AnyVectors(EVals), o \in UndefinedOutcomes :
         GradientUndefined(p, e, o)
    \/ Discard

SpecErr == Init /\ [][ErrNext]_vars

\* The data model: a non-empty sequence of symmetric matrices of one size.
ValidSequence(input) ==
    /\ Len(input) >= 1
    /\ \A k \in 1..Len(input) :
         IsSymmetric(input[k]) /\ input[k].rows = input[1].rows

\* C5: construction from an empty, inconsistently sized, non-square or
\* non-symmetric sequence ends in a construction error and leaves no pencil
\* object, and every pencil object a constructor leaves has d, m and the
\* packed matrix set consistently with the stored matrices.
ConstructionFailsFast ==
    /\ (op = "construct" /\ ~ValidSequence(matrices)) => obj = "construction_error"
    /\ obj = "constructed" =>
         /\ ValidSequence(matrices)
         /\ m = matrices[1].rows
         /\ PackedMatches

\* C6: evaluate and evaluateWithoutA0 with an x of length other than d, and
\* normalizedDeterminantGradient with an e of length other than m, report a
\* dimension-mismatch error (and so access nothing out of bounds).
DimensionMismatchReported ==
    ( \/ op \in {"evaluate", "evaluateWithoutA0"} /\ Size(xin) # d
      \/ op = "normalizedDeterminantGradient" /\ Size(ein) # m )
        => outcome = "dimension_mismatch"

(***************************************************************************)
(* The degenerate gradient (Spec)                                          *)
(***************************************************************************)

\* C7: normalizedDeterminantGradient reports the degenerate-gradient error
\* whenever e^T A_i e = 0 for every i = 1..d; it does not return normally.
DegenerateGradientReported ==
    ( /\ op = "normalizedDeterminantGradient"
      /\ \A i \in 1..d : QuadraticForm(matrices[i + 1], ein) = 0 )
        => outcome = "degenerate_gradient"

====
